---- MODULE Spec2Model ----
(***************************************************************************)
(* Model of snapgram's data-access layer (src/lib/appwrite/api.ts) and of  *)
(* the react-query hooks wrapped around it (src/lib/react-query/queries).  *)
(* The remote backend (Appwrite account, databases, storage) is an opaque  *)
(* collaborator: every remote call either succeeds ("ok"), raises          *)
(* ("throw") or resolves to a falsy value ("null"), the three outcomes the *)
(* code itself distinguishes (try/catch and `if (!x) throw Error`).        *)
(***************************************************************************)
EXTENDS Integers, Sequences, FiniteSets, TLC

\* ---------------------------------------------------------------- bounds
MaxFiles == 3       \* file ids ID.unique() hands out to storage.createFile
MaxPosts == 2       \* post ids ID.unique() hands out to createDocument
MaxUsers == 1       \* accounts that sign up
MaxTagLen == 3      \* length of a tags input string
MaxFeedUsers == 2   \* users of the feed specification
MaxFeedPosts == 3   \* posts of the feed specification
MaxFollows == 2     \* follow documents ever created
MaxSaves == 1       \* saved-post documents ever created
MaxPage == 2        \* page numbers requested
MaxReadId == 2      \* ids, search terms and limits the read hooks are given
MaxEntries == 2     \* entries the query cache holds at a time
MaxListed == 10

\* ------------------------------------------------------------ primitives
NoId == 0           \* the empty id "" (falsy)
Undef == 0 - 1      \* undefined (falsy)

FileIds == 1..MaxFiles
PostIds == 1..MaxPosts
UserIds == 1..MaxUsers

Outcomes == {"ok", "throw", "null"}     \* of an awaited remote call
SyncOutcomes == {"ok", "throw"}         \* of a call that cannot yield falsy

Call(api, arg) == [api |-> api, arg |-> arg]

\* JS truthiness of an id: !!id
Truthy(id) == id # NoId /\ id # Undef

\* ------------------------------------------------------- strings and tags
\* A string is a sequence of one-character strings; tags?: string is a
\* record that says whether the field is present at all.
Chars == {"a", "b", " ", ","}

RECURSIVE StringsOfLen(_)
StringsOfLen(n) ==
  IF n = 0 THEN {<<>>}
  ELSE {Append(s, c) : s \in StringsOfLen(n - 1), c \in Chars}

Strings == UNION {StringsOfLen(n) : n \in 0..MaxTagLen}

NoTags == [present |-> FALSE, chars |-> <<>>]
Str(s) == [present |-> TRUE, chars |-> s]
TagInputs == {NoTags} \cup {Str(s) : s \in Strings}

\* String.prototype.replace(/ /g, ""): drops every U+0020, nothing else
ReplaceSpaces(s) == SelectSeq(s, LAMBDA c : c # " ")

FirstComma(s) == CHOOSE i \in 1..Len(s) : s[i] = "," /\ \A j \in 1..(i - 1) : s[j] # ","

\* String.prototype.split(","): always at least one segment
RECURSIVE Split(_)
Split(s) ==
  IF \A i \in 1..Len(s) : s[i] # "," THEN <<s>>
  ELSE <<SubSeq(s, 1, FirstComma(s) - 1)>> \o Split(SubSeq(s, FirstComma(s) + 1, Len(s)))

\* post.tags?.replace(/ /g, "").split(",") || []
\* (an array is truthy, so || [] is taken only when tags is undefined)
ConvertTags(tags) ==
  IF tags.present THEN Split(ReplaceSpaces(tags.chars)) ELSE <<>>

\* ----------------------------------------------------------------- state
VARIABLES
  files,      \* ids of the files that exist in blob storage
  nextFile,   \* next id ID.unique() gives a file
  pending,    \* deleteFile requests issued without await, not yet completed
  posts,      \* post documents: id -> [creator, imageId, tags, createdAt]
  nextPost,   \* next id ID.unique() gives a post
  users,      \* user documents: id -> [imageId]
  accounts,   \* account ids that exist in the identity service
  follows,    \* follow documents: id -> [follower, followedUser]
  nextFollow, \* next id ID.unique() gives a follow document
  saves,      \* saved-post documents: id -> [user, post]
  nextSave,   \* next id ID.unique() gives a saved-post document
  ret,        \* what the last API call did and returned
  cache,      \* react-query cache: query key -> [fetchedFor, stale]
  hook        \* what the last hook (useQuery / useMutation) did

social == <<follows, nextFollow, saves, nextSave>>
backend == <<files, nextFile, pending, posts, nextPost, users, accounts, social>>
cacheVars == <<cache, hook>>
vars == <<files, nextFile, pending, posts, nextPost, users, accounts,
          follows, nextFollow, saves, nextSave, ret, cache, hook>>

\* The observable record of one API call.
\*   result : "doc" | "status" | "undefined" | "error" (an Error object
\*            returned as the value) | "rejected" (raised to the caller)
\*   id     : $id of the returned document, Undef when there is none
\*   upload : TRUE when storage.createFile succeeded in this call
\*   write  : outcome of the record write, "none" when it was not reached
\*   acct   : outcome of account.updateName, "none" when it was not reached
\*   oldId  : image id passed in by the caller, newId : id of the upload
\*   calls  : remote calls issued, in order
\*   tags   : the tags input of createPost / updatePost
\*   args   : the other inputs of a read, data : the list a read returned
Ret(op, result, id, upload, write, acct, oldId, newId, doc, calls) ==
  [op |-> op, result |-> result, id |-> id, upload |-> upload, write |-> write,
   acct |-> acct, oldId |-> oldId, newId |-> newId, doc |-> doc, calls |-> calls,
   tags |-> NoTags, args |-> <<>>, data |-> <<>>]

\* the same, for createPost / updatePost: the tags input is kept with it
RetT(tags, r) == [r EXCEPT !.tags = tags]

\* the same, for a read that returns a list
RetD(args, data, r) == [r EXCEPT !.args = args, !.data = data]

NoRet == Ret("none", "undefined", Undef, FALSE, "none", "none", NoId, NoId, NoId, <<>>)

\* The observable record of one hook use.
\*   name        : the hook
\*   key         : its query key (reads)
\*   param       : the identifier a read is bound to
\*   ran         : TRUE when the queryFn / mutationFn was executed
\*   servedFor   : the parameter the data handed to the component was
\*                 fetched for, Undef when no data was handed over
\*   invalidated : the query-key filters given to invalidateQueries
\*   marked      : the cache keys those filters marked stale
Hook(name, key, param, ran, servedFor, invalidated, marked) ==
  [name |-> name, key |-> key, param |-> param, ran |-> ran, servedFor |-> servedFor,
   invalidated |-> invalidated, marked |-> marked]

NoHook == Hook("none", <<>>, Undef, FALSE, Undef, {}, {})

\* storage.deleteFile inside deleteFile(): the file goes unless the call raises
AfterDelete(fs, fileId, o) == IF o = "ok" THEN fs \ {fileId} ELSE fs

\* ------------------------------------------------------------ API: posts
\* createPost(post): upload, preview, createDocument, compensating delete
CreatePost(userId, tags, oUp, oPrev, oDoc, oDel) ==
  LET f == nextFile
      id == nextPost
      up == <<Call("storage.createFile", f)>>
      del == <<Call("storage.deleteFile", f)>>
      doc == <<Call("databases.createDocument", id)>>
  IN
  /\ nextFile <= MaxFiles
  /\ nextPost <= MaxPosts
  /\ UNCHANGED <<users, accounts, social>>
  /\ IF oUp # "ok" THEN
       \* uploadFile swallowed the error or got nothing: throw Error, caught
       /\ ret' = RetT(tags, Ret("createPost", "undefined", Undef, FALSE, "none", "none", NoId, NoId, NoId, up))
       /\ UNCHANGED <<files, nextFile, pending, posts, nextPost>>
     ELSE IF oPrev # "ok" THEN
       \* deleteFile(uploadedFile.$id) is issued without await
       /\ files' = files \cup {f}
       /\ nextFile' = f + 1
       /\ pending' = pending \cup {f}
       /\ ret' = RetT(tags, Ret("createPost", "undefined", Undef, TRUE, "none", "none", NoId, f, NoId, up \o del))
       /\ UNCHANGED <<posts, nextPost>>
     ELSE IF oDoc = "ok" THEN
       /\ files' = files \cup {f}
       /\ nextFile' = f + 1
       /\ posts' = [p \in DOMAIN posts \cup {id} |->
                     IF p = id
                     THEN [creator |-> userId, imageId |-> f,
                           tags |-> ConvertTags(tags), createdAt |-> id,
                           likes |-> <<>>]
                     ELSE posts[p]]
       /\ nextPost' = id + 1
       /\ ret' = RetT(tags, Ret("createPost", "doc", id, TRUE, "ok", "none", NoId, f, id, up \o doc))
       /\ UNCHANGED pending
     ELSE IF oDoc = "throw" THEN
       \* the error goes straight to catch: no deleteFile on this path
       /\ files' = files \cup {f}
       /\ nextFile' = f + 1
       /\ ret' = RetT(tags, Ret("createPost", "undefined", Undef, TRUE, "throw", "none", NoId, f, NoId, up \o doc))
       /\ UNCHANGED <<pending, posts, nextPost>>
     ELSE
       \* if (!newPost) { await deleteFile(uploadedFile.$id); throw Error }
       /\ files' = AfterDelete(files \cup {f}, f, oDel)
       /\ nextFile' = f + 1
       /\ ret' = RetT(tags, Ret("createPost", "undefined", Undef, TRUE, "null", "none", NoId, f, NoId,
                     up \o doc \o del))
       /\ UNCHANGED <<pending, posts, nextPost>>

\* updatePost(post); post.imageId is the image id of the post being edited
UpdatePost(postId, hasFileToUpdate, tags, oUp, oPrev, oDoc, oDel) ==
  LET f == nextFile
      old == posts[postId].imageId
      up == <<Call("storage.createFile", f)>>
      doc == <<Call("databases.updateDocument", postId)>>
      pre == IF hasFileToUpdate THEN up ELSE <<>>
      imageId == IF hasFileToUpdate THEN f ELSE old
      filesUp == IF hasFileToUpdate THEN files \cup {f} ELSE files
      nextUp == IF hasFileToUpdate THEN f + 1 ELSE nextFile
  IN
  /\ postId \in DOMAIN posts
  /\ hasFileToUpdate => nextFile <= MaxFiles
  /\ UNCHANGED <<users, accounts, nextPost, social>>
  /\ IF hasFileToUpdate /\ oUp # "ok" THEN
       /\ ret' = RetT(tags, Ret("updatePost", "undefined", Undef, FALSE, "none", "none", old, NoId, postId, up))
       /\ UNCHANGED <<files, nextFile, pending, posts>>
     ELSE IF hasFileToUpdate /\ oPrev # "ok" THEN
       /\ files' = filesUp
       /\ nextFile' = nextUp
       /\ pending' = pending \cup {f}
       /\ ret' = RetT(tags, Ret("updatePost", "undefined", Undef, TRUE, "none", "none", old, f, postId,
                     up \o <<Call("storage.deleteFile", f)>>))
       /\ UNCHANGED posts
     ELSE IF oDoc = "ok" THEN
       /\ files' = filesUp
       /\ nextFile' = nextUp
       /\ posts' = [posts EXCEPT ![postId].imageId = imageId,
                                 ![postId].tags = ConvertTags(tags)]
       /\ ret' = RetT(tags, Ret("updatePost", "doc", postId, hasFileToUpdate, "ok", "none", old,
                     IF hasFileToUpdate THEN f ELSE NoId, postId, pre \o doc))
       /\ UNCHANGED pending
     ELSE IF oDoc = "throw" THEN
       /\ files' = filesUp
       /\ nextFile' = nextUp
       /\ ret' = RetT(tags, Ret("updatePost", "undefined", Undef, hasFileToUpdate, "throw", "none", old,
                     IF hasFileToUpdate THEN f ELSE NoId, postId, pre \o doc))
       /\ UNCHANGED <<pending, posts>>
     ELSE
       \* if (!updatedPost) { await deleteFile(post.imageId); throw Error }
       /\ files' = AfterDelete(filesUp, old, oDel)
       /\ nextFile' = nextUp
       /\ ret' = RetT(tags, Ret("updatePost", "undefined", Undef, hasFileToUpdate, "null", "none", old,
                     IF hasFileToUpdate THEN f ELSE NoId, postId,
                     pre \o doc \o <<Call("storage.deleteFile", old)>>))
       /\ UNCHANGED <<pending, posts>>

\* a deletePost that also removes the image from storage
DeletePostAndFile(postId, imageId, oDoc) ==
  /\ postId = NoId \/ postId \in DOMAIN posts
  /\ UNCHANGED <<nextFile, pending, nextPost, users, accounts, social>>
  /\ IF ~Truthy(postId) \/ ~Truthy(imageId) THEN
       /\ ret' = Ret("deletePost", "rejected", Undef, FALSE, "none", "none", imageId, NoId, postId, <<>>)
       /\ UNCHANGED <<posts, files>>
     ELSE IF oDoc = "throw" THEN
       /\ ret' = Ret("deletePost", "undefined", Undef, FALSE, "throw", "none", imageId, NoId, postId,
                     <<Call("databases.deleteDocument", postId)>>)
       /\ UNCHANGED <<posts, files>>
     ELSE
       /\ posts' = [p \in DOMAIN posts \ {postId} |-> posts[p]]
       /\ files' = files \ {imageId}
       /\ ret' = Ret("deletePost", "status", Undef, FALSE, "ok", "none", imageId, NoId, postId,
                     <<Call("databases.deleteDocument", postId), Call("storage.deleteFile", imageId)>>)

\* deletePost(postId, imageId): only the document is deleted
DeletePost(postId, imageId, oDoc) ==
  /\ postId = NoId \/ postId \in DOMAIN posts
  /\ UNCHANGED <<files, nextFile, pending, nextPost, users, accounts, social>>
  /\ IF ~Truthy(postId) \/ ~Truthy(imageId) THEN
       \* thrown before the try block: the returned promise rejects
       /\ ret' = Ret("deletePost", "rejected", Undef, FALSE, "none", "none", imageId, NoId, postId, <<>>)
       /\ UNCHANGED posts
     ELSE IF oDoc = "throw" THEN
       /\ ret' = Ret("deletePost", "undefined", Undef, FALSE, "throw", "none", imageId, NoId, postId,
                     <<Call("databases.deleteDocument", postId)>>)
       /\ UNCHANGED posts
     ELSE
       /\ posts' = [p \in DOMAIN posts \ {postId} |-> posts[p]]
       /\ ret' = Ret("deletePost", "status", Undef, FALSE, "ok", "none", imageId, NoId, postId,
                     <<Call("databases.deleteDocument", postId)>>)

\* An un-awaited deleteFile completes after the function that issued it.
CompleteDelete(f, oDel) ==
  /\ f \in pending
  /\ pending' = pending \ {f}
  /\ files' = AfterDelete(files, f, oDel)
  /\ ret' = NoRet
  /\ UNCHANGED <<nextFile, posts, nextPost, users, accounts, social>>

\* ------------------------------------------------------------ API: users
\* updateUser(user); user.imageId is the image id of the user being edited.
\* The function has no return statement: it resolves to undefined always.
UpdateUser(userId, hasFileToUpdate, oUp, oPrev, oDoc, oAcct, oDel) ==
  LET f == nextFile
      old == users[userId].imageId
      up == <<Call("storage.createFile", f)>>
      doc == <<Call("databases.updateDocument", userId)>>
      acct == <<Call("account.updateName", userId)>>
      pre == IF hasFileToUpdate THEN up ELSE <<>>
      new == IF hasFileToUpdate THEN f ELSE NoId
      imageId == IF hasFileToUpdate THEN f ELSE old
      filesUp == IF hasFileToUpdate THEN files \cup {f} ELSE files
      nextUp == IF hasFileToUpdate THEN f + 1 ELSE nextFile
      usersUp == IF oDoc = "ok" THEN [users EXCEPT ![userId].imageId = imageId] ELSE users
  IN
  /\ userId \in DOMAIN users
  /\ hasFileToUpdate => nextFile <= MaxFiles
  /\ UNCHANGED <<posts, nextPost, accounts, pending, social>>
  /\ IF hasFileToUpdate /\ oUp # "ok" THEN
       /\ ret' = Ret("updateUser", "undefined", Undef, FALSE, "none", "none", old, NoId, userId, up)
       /\ UNCHANGED <<files, nextFile, users>>
     ELSE IF hasFileToUpdate /\ oPrev # "ok" THEN
       \* here the cleanup is awaited: await deleteFile(uploadedFile.$id)
       /\ files' = AfterDelete(filesUp, f, oDel)
       /\ nextFile' = nextUp
       /\ ret' = Ret("updateUser", "undefined", Undef, TRUE, "none", "none", old, f, userId,
                     up \o <<Call("storage.deleteFile", f)>>)
       /\ UNCHANGED users
     ELSE IF oDoc = "throw" THEN
       /\ files' = filesUp
       /\ nextFile' = nextUp
       /\ ret' = Ret("updateUser", "undefined", Undef, hasFileToUpdate, "throw", "none", old, new,
                     userId, pre \o doc)
       /\ UNCHANGED users
     ELSE IF oAcct = "throw" THEN
       \* account.updateName raises after the document write: straight to catch
       /\ files' = filesUp
       /\ nextFile' = nextUp
       /\ users' = usersUp
       /\ ret' = Ret("updateUser", "undefined", Undef, hasFileToUpdate, oDoc, "throw", old, new,
                     userId, pre \o doc \o acct)
     ELSE IF oDoc = "null" \/ oAcct = "null" THEN
       \* if (!updatedUser || !updatedAccount): delete the new file, throw
       /\ files' = IF hasFileToUpdate THEN AfterDelete(filesUp, imageId, oDel) ELSE filesUp
       /\ nextFile' = nextUp
       /\ users' = usersUp
       /\ ret' = Ret("updateUser", "undefined", Undef, hasFileToUpdate, oDoc, oAcct, old, new,
                     userId,
                     pre \o doc \o acct \o
                       (IF hasFileToUpdate THEN <<Call("storage.deleteFile", imageId)>> ELSE <<>>))
     ELSE
       \* both updates succeeded: delete the old file
       /\ files' = IF Truthy(old) /\ hasFileToUpdate THEN AfterDelete(filesUp, old, oDel)
                   ELSE filesUp
       /\ nextFile' = nextUp
       /\ users' = usersUp
       /\ ret' = Ret("updateUser", "undefined", Undef, hasFileToUpdate, "ok", "ok", old, new,
                     userId,
                     pre \o doc \o acct \o
                       (IF Truthy(old) /\ hasFileToUpdate
                        THEN <<Call("storage.deleteFile", old)>> ELSE <<>>))

\* createUserAccount(user), with saveUserToDB inlined
CreateUserAccount(oAcct, oDoc) ==
  LET id == Cardinality(accounts) + 1
      acct == <<Call("account.create", id)>>
      doc == <<Call("databases.createDocument", id)>>
  IN
  /\ id <= MaxUsers
  /\ UNCHANGED <<files, nextFile, pending, posts, nextPost, social>>
  /\ IF oAcct # "ok" THEN
       \* catch (error) { console.log(error); return error }
       /\ ret' = Ret("createUserAccount", "error", Undef, FALSE, "none", oAcct, NoId, NoId, NoId, acct)
       /\ UNCHANGED <<users, accounts, social>>
     ELSE IF oDoc = "ok" THEN
       /\ accounts' = accounts \cup {id}
       /\ users' = [u \in DOMAIN users \cup {id} |->
                     IF u = id THEN [imageId |-> NoId] ELSE users[u]]
       /\ ret' = Ret("createUserAccount", "doc", id, FALSE, "ok", "ok", NoId, NoId, id, acct \o doc)
     ELSE
       \* saveUserToDB caught the error (or got nothing) and returned nothing
       /\ accounts' = accounts \cup {id}
       /\ ret' = Ret("createUserAccount", "undefined", Undef, FALSE, oDoc, "ok", NoId, NoId, NoId,
                     acct \o doc)
       /\ UNCHANGED users

\* signInAccount(user)
SignInAccount(userId, oAcct) ==
  /\ UNCHANGED backend
  /\ ret' = Ret("signInAccount", IF oAcct = "ok" THEN "doc" ELSE "undefined", Undef, FALSE,
                "none", oAcct, NoId, NoId, userId, <<Call("account.createEmailSession", userId)>>)

\* getPostById(postId?)
GetPostById(postId, oDoc) ==
  /\ postId \in DOMAIN posts \cup {NoId, Undef}
  /\ UNCHANGED backend
  /\ IF ~Truthy(postId) THEN
       \* if (!postId) throw Error, before the try block
       ret' = Ret("getPostById", "rejected", Undef, FALSE, "none", "none", NoId, NoId, postId, <<>>)
     ELSE
       ret' = Ret("getPostById", IF oDoc = "ok" THEN "doc" ELSE "undefined",
                  IF oDoc = "ok" THEN postId ELSE Undef, FALSE, "none", "none", NoId, NoId,
                  postId, <<Call("databases.getDocument", postId)>>)

Init ==
  /\ files = {}
  /\ nextFile = 1
  /\ pending = {}
  /\ posts = <<>>
  /\ nextPost = 1
  /\ users = <<>>
  /\ accounts = {}
  /\ follows = <<>>
  /\ nextFollow = 1
  /\ saves = <<>>
  /\ nextSave = 1
  /\ cache = <<>>
  /\ hook = NoHook
  /\ ret = NoRet

\* ----------------------------------------------------------- API: follow
\* followUser(userId, followedUserId): no check that the pair is new or
\* that the two ids differ
FollowUser(userId, followedUserId, oDoc) ==
  /\ nextFollow <= MaxFollows
  /\ UNCHANGED <<files, nextFile, pending, posts, nextPost, users, accounts, saves, nextSave>>
  /\ IF oDoc = "ok" THEN
       /\ follows' = [i \in DOMAIN follows \cup {nextFollow} |->
                       IF i = nextFollow
                       THEN [follower |-> userId, followedUser |-> followedUserId]
                       ELSE follows[i]]
       /\ nextFollow' = nextFollow + 1
       /\ ret' = Ret("followUser", "doc", nextFollow, FALSE, "ok", "none", NoId, NoId, nextFollow,
                     <<Call("databases.createDocument", nextFollow)>>)
     ELSE
       /\ ret' = Ret("followUser", "undefined", Undef, FALSE, oDoc, "none", NoId, NoId, NoId,
                     <<Call("databases.createDocument", nextFollow)>>)
       /\ UNCHANGED <<follows, nextFollow>>

\* unfollowUser(followedUserRecord)
UnfollowUser(followedUserRecord, oDoc) ==
  /\ followedUserRecord \in DOMAIN follows
  /\ UNCHANGED <<files, nextFile, pending, posts, nextPost, users, accounts, saves, nextSave,
                 nextFollow>>
  /\ follows' = IF oDoc = "throw" THEN follows
                ELSE [i \in DOMAIN follows \ {followedUserRecord} |-> follows[i]]
  /\ ret' = Ret("unfollowUser", IF oDoc = "ok" THEN "status" ELSE "undefined", Undef, FALSE,
                oDoc, "none", NoId, NoId, followedUserRecord,
                <<Call("databases.deleteDocument", followedUserRecord)>>)

\* ------------------------------------------------------------- API: feed
Min(a, b) == IF a < b THEN a ELSE b
Max(a, b) == IF a > b THEN a ELSE b

\* the elements of a set of ids, ascending: the order the backend lists
\* documents in when the query names none
RECURSIVE Ascending(_)
Ascending(S) ==
  IF S = {} THEN <<>>
  ELSE LET m == CHOOSE x \in S : \A y \in S : x <= y
       IN <<m>> \o Ascending(S \ {m})

\* currentUser.following.map(creator => creator.followedUser.$id)
Following(userId) ==
  LET ids == Ascending({i \in DOMAIN follows : follows[i].follower = userId})
  IN [k \in 1..Len(ids) |-> follows[ids[k]].followedUser]

\* listDocuments(posts, [Query.equal("creator", userId)]).documents
PostsBy(userId) == Ascending({p \in DOMAIN posts : posts[p].creator = userId})

\* fetchPosts.flatMap(creator => creator.documents)
RECURSIVE FlatMap(_)
FlatMap(lists) == IF lists = <<>> THEN <<>> ELSE Head(lists) \o FlatMap(Tail(lists))

\* Array.prototype.sort with (a, b) => time(b) - time(a): stable, descending
RECURSIVE InsertDesc(_, _)
InsertDesc(sorted, p) ==
  IF sorted = <<>> THEN <<p>>
  ELSE IF posts[Head(sorted)].createdAt >= posts[p].createdAt
       THEN <<Head(sorted)>> \o InsertDesc(Tail(sorted), p)
       ELSE <<p>> \o sorted

RECURSIVE SortDesc(_)
SortDesc(list) ==
  IF list = <<>> THEN <<>>
  ELSE InsertDesc(SortDesc(SubSeq(list, 1, Len(list) - 1)), list[Len(list)])

\* Array.prototype.slice(start, end), indices counted from 0
Slice(list, start, end) ==
  LET k == Len(list)
      from == IF start < 0 THEN Max(k + start, 0) ELSE Min(start, k)
      to == IF end < 0 THEN Max(k + end, 0) ELSE Min(end, k)
  IN SubSeq(list, from + 1, to)

\* getHomeFeedPosts(page, pageSize = 3)
HomePageSize == 3

\* getFollowingPosts() for the signed-in user: the user ids queried
FeedUserIds(userId) == Append(Following(userId), userId)

\* getHomeFeedPosts(page, pageSize) with getFollowingPosts and getCurrentUser
\* inlined; userId is the signed-in account. oPosts[k] is the outcome of
\* the k-th listDocuments of the Promise.all.
GetHomeFeedPosts(userId, page, pageSize, oAcct, oUser, oPosts) ==
  LET userIds == FeedUserIds(userId)
      me == <<Call("account.get", userId)>>
      doc == <<Call("databases.listDocuments.users", userId)>>
      lists == [k \in 1..Len(userIds) |-> Call("databases.listDocuments.posts", userIds[k])]
      postList == SortDesc(FlatMap([k \in 1..Len(userIds) |-> PostsBy(userIds[k])]))
      startIndex == (page - 1) * pageSize
      endIndex == startIndex + pageSize
      args == <<page, pageSize>>
  IN
  /\ UNCHANGED backend
  /\ IF oAcct # "ok" THEN
       ret' = RetD(args, <<>>, Ret("getHomeFeedPosts", "undefined", Undef, FALSE, "none", oAcct,
                                   NoId, NoId, userId, me))
     ELSE IF oUser # "ok" \/ userId \notin DOMAIN users THEN
       \* if (!currentUser) throw Error
       ret' = RetD(args, <<>>, Ret("getHomeFeedPosts", "undefined", Undef, FALSE, "none", "ok",
                                   NoId, NoId, userId, me \o doc))
     ELSE IF \E k \in 1..Len(userIds) : oPosts[k] # "ok" THEN
       \* Promise.all rejects, or creator.documents of nothing raises
       ret' = RetD(args, <<>>, Ret("getHomeFeedPosts", "undefined", Undef, FALSE, "none", "ok",
                                   NoId, NoId, userId, me \o doc \o lists))
     ELSE
       ret' = RetD(args, Slice(postList, startIndex, endIndex),
                   Ret("getHomeFeedPosts", "doc", Undef, FALSE, "none", "ok",
                       NoId, NoId, userId, me \o doc \o lists))

\* ---------------------------------------------------- API: likes and saves
\* likePost(postId, likesArray)
LikePost(postId, likesArray, oDoc) ==
  /\ postId \in DOMAIN posts
  /\ UNCHANGED <<files, nextFile, pending, nextPost, users, accounts, social>>
  /\ posts' = IF oDoc = "ok" THEN [posts EXCEPT ![postId].likes = likesArray] ELSE posts
  /\ ret' = Ret("likePost", IF oDoc = "ok" THEN "doc" ELSE "undefined",
                IF oDoc = "ok" THEN postId ELSE Undef, FALSE, oDoc, "none", NoId, NoId, postId,
                <<Call("databases.updateDocument", postId)>>)

\* savePost(postId, userId)
SavePost(postId, userId, oDoc) ==
  /\ nextSave <= MaxSaves
  /\ UNCHANGED <<files, nextFile, pending, posts, nextPost, users, accounts, follows, nextFollow>>
  /\ IF oDoc = "ok" THEN
       /\ saves' = [i \in DOMAIN saves \cup {nextSave} |->
                     IF i = nextSave THEN [user |-> userId, post |-> postId] ELSE saves[i]]
       /\ nextSave' = nextSave + 1
       /\ ret' = Ret("savePost", "doc", nextSave, FALSE, "ok", "none", NoId, NoId, postId,
                     <<Call("databases.createDocument", nextSave)>>)
     ELSE
       /\ ret' = Ret("savePost", "undefined", Undef, FALSE, oDoc, "none", NoId, NoId, postId,
                     <<Call("databases.createDocument", nextSave)>>)
       /\ UNCHANGED <<saves, nextSave>>

\* deleteSavedPost(savedRecordId)
DeleteSavedPost(savedRecordId, oDoc) ==
  /\ savedRecordId \in DOMAIN saves
  /\ UNCHANGED <<files, nextFile, pending, posts, nextPost, users, accounts, follows, nextFollow,
                 nextSave>>
  /\ saves' = IF oDoc = "throw" THEN saves
              ELSE [i \in DOMAIN saves \ {savedRecordId} |-> saves[i]]
  /\ ret' = Ret("deleteSavedPost", IF oDoc = "ok" THEN "status" ELSE "undefined", Undef, FALSE,
                oDoc, "none", NoId, NoId, savedRecordId,
                <<Call("databases.deleteDocument", savedRecordId)>>)

\* ------------------------------------------------------------ API: reads
\* searchPosts(searchTerm): the function itself has no guard
SearchPosts(searchTerm, oDoc) ==
  /\ UNCHANGED backend
  /\ ret' = Ret("searchPosts", IF oDoc = "ok" THEN "doc" ELSE "undefined", Undef, FALSE, "none",
                "none", NoId, NoId, searchTerm, <<Call("databases.listDocuments.posts", searchTerm)>>)

\* the body of getUserPosts(userId?): what it calls and what it returns
\* (Query.equal("creator", userId), Query.orderDesc("$createdAt"))
UserPostsCall(userId, oDoc) ==
  IF ~Truthy(userId) THEN
    \* if (!userId) return
    [calls |-> <<>>, defined |-> FALSE, documents |-> <<>>]
  ELSE
    [calls |-> <<Call("databases.listDocuments.posts", userId)>>,
     defined |-> oDoc = "ok",
     documents |-> IF oDoc = "ok" THEN SortDesc(PostsBy(userId)) ELSE <<>>]

\* getUserPosts(userId?)
GetUserPosts(userId, oDoc) ==
  LET r == UserPostsCall(userId, oDoc)
  IN /\ UNCHANGED backend
     /\ ret' = RetD(<<>>, r.documents,
                    Ret("getUserPosts", IF r.defined THEN "doc" ELSE "undefined", Undef, FALSE,
                        "none", "none", NoId, NoId, userId, r.calls))

\* getUserProfilePosts(userId, page, pageSize = 6)
ProfilePageSize == 6

GetUserProfilePosts(userId, page, pageSize, oDoc) ==
  LET r == UserPostsCall(userId, oDoc)
      startIndex == (page - 1) * pageSize
      endIndex == startIndex + pageSize
  IN /\ UNCHANGED backend
     /\ ret' = RetD(<<page, pageSize>>,
                    IF r.defined THEN Slice(r.documents, startIndex, endIndex) ELSE <<>>,
                    Ret("getUserProfilePosts", IF r.defined THEN "doc" ELSE "undefined", Undef,
                        FALSE, "none", "none", NoId, NoId, userId, r.calls))

\* getUserById(userId?)
GetUserById(userId, oDoc) ==
  /\ UNCHANGED backend
  /\ IF ~Truthy(userId) THEN
       ret' = Ret("getUserById", "undefined", Undef, FALSE, "none", "none", NoId, NoId, userId, <<>>)
     ELSE
       ret' = Ret("getUserById", IF oDoc = "ok" /\ userId \in DOMAIN users THEN "doc" ELSE "undefined",
                  IF oDoc = "ok" /\ userId \in DOMAIN users THEN userId ELSE Undef, FALSE, "none",
                  "none", NoId, NoId, userId, <<Call("databases.getDocument", userId)>>)

\* allUsers.documents.sort((a, b) => b.followers.length - a.followers.length)
Followers(u) == Cardinality({i \in DOMAIN follows : follows[i].followedUser = u})

RECURSIVE InsertByFollowers(_, _)
InsertByFollowers(sorted, u) ==
  IF sorted = <<>> THEN <<u>>
  ELSE IF Followers(Head(sorted)) >= Followers(u)
       THEN <<Head(sorted)>> \o InsertByFollowers(Tail(sorted), u)
       ELSE <<u>> \o sorted

RECURSIVE SortByFollowers(_)
SortByFollowers(list) ==
  IF list = <<>> THEN <<>>
  ELSE InsertByFollowers(SortByFollowers(SubSeq(list, 1, Len(list) - 1)), list[Len(list)])

\* getUsers(limit?): Query.limit(limit) only when limit is truthy
GetUsers(limit, oDoc) ==
  LET all == Ascending(DOMAIN users)
      documents == IF Truthy(limit) THEN SubSeq(all, 1, Min(limit, Len(all))) ELSE all
  IN /\ UNCHANGED backend
     /\ ret' = RetD(<<limit>>, IF oDoc = "ok" THEN SortByFollowers(documents) ELSE <<>>,
                    Ret("getUsers", IF oDoc = "ok" THEN "doc" ELSE "undefined", Undef, FALSE,
                        "none", "none", NoId, NoId, NoId, <<Call("databases.listDocuments.users", NoId)>>))

\* ------------------------------------------------------ hooks: the cache
\* partial matching of a query-key filter against a query key
Matches(filter, key) ==
  /\ Len(filter) <= Len(key)
  /\ \A i \in 1..Len(filter) : key[i] = filter[i]

\* a hook whose enabled option is dropped (always true)
EnabledAlways(id) == TRUE

\* enabled: !!id
Enabled(id) == Truthy(id)

\* useQuery / useInfiniteQuery({queryKey, queryFn, enabled}) mounted with
\* param. Data already cached under the key is handed over as it is; the
\* queryFn runs when the query is enabled and the key has no entry or a
\* stale one, or when the entry's age calls for a refetch (the staleTime is
\* set outside these files: either may happen). A fetch that yields
\* undefined leaves the entry as it was.
UseQuery(name, key, param, enabled, queryFn) ==
  LET cached == key \in DOMAIN cache
  IN \E refetch \in BOOLEAN :
       LET run == enabled /\ (~cached \/ cache[key].stale \/ refetch)
       IN /\ refetch => (cached /\ ~cache[key].stale)
          /\ (run /\ ~cached) => Cardinality(DOMAIN cache) < MaxEntries
          /\ IF run THEN queryFn ELSE (UNCHANGED backend /\ ret' = NoRet)
          /\ cache' = IF run /\ ret'.result = "doc"
                      THEN [k \in DOMAIN cache \cup {key} |->
                              IF k = key THEN [fetchedFor |-> param, stale |-> FALSE]
                              ELSE cache[k]]
                      ELSE cache
          /\ hook' = Hook(name, key, param, run,
                          IF cached THEN cache[key].fetchedFor
                          ELSE IF run /\ ret'.result = "doc" THEN param ELSE Undef,
                          {}, {})

\* an unused entry is garbage-collected
Evict(key) ==
  /\ key \in DOMAIN cache
  /\ cache' = [k \in DOMAIN cache \ {key} |-> cache[k]]
  /\ hook' = NoHook
  /\ ret' = NoRet
  /\ UNCHANGED backend

\* --------------------------------------------------------- hooks: reads
useSearchPosts(searchTerm, oDoc) ==
  UseQuery("useSearchPosts", <<"SEARCH_POSTS", searchTerm>>, searchTerm, Enabled(searchTerm),
           SearchPosts(searchTerm, oDoc))

useGetPostById(postId, oDoc) ==
  UseQuery("useGetPostById", <<"GET_POST_BY_ID", postId>>, postId, Enabled(postId),
           GetPostById(postId, oDoc))

useGetUserPosts(userId, oDoc) ==
  UseQuery("useGetUserPosts", <<"GET_USER_POSTS", userId>>, userId, Enabled(userId),
           GetUserPosts(userId, oDoc))

\* no enabled option, and the key does not hold userId; initialPageParam: 1
useGetUserProfilePosts(userId, oDoc) ==
  UseQuery("useGetUserProfilePosts", <<"GET_USER_PROFILE_POSTS">>, userId, TRUE,
           GetUserProfilePosts(userId, 1, ProfilePageSize, oDoc))

useGetUserById(userId, oDoc) ==
  UseQuery("useGetUserById", <<"GET_USER_BY_ID", userId>>, userId, Enabled(userId),
           GetUserById(userId, oDoc))

\* no enabled option, and the key does not hold limit
useGetUsers(limit, oDoc) ==
  UseQuery("useGetUsers", <<"GET_USERS">>, limit, TRUE, GetUsers(limit, oDoc))

\* ----------------------------------------------------- hooks: mutations
\* queryClient.invalidateQueries({queryKey}) for each filter: every cached
\* query the filter matches is marked stale
Invalidate(filters) ==
  [k \in DOMAIN cache |->
     IF \E f \in filters : Matches(f, k) THEN [cache[k] EXCEPT !.stale = TRUE] ELSE cache[k]]

\* useMutation({mutationFn, onSuccess}): onSuccess runs whenever the promise
\* of mutationFn resolves, whatever it resolves to; filters is the set of
\* query keys onSuccess invalidates, read from the resolved value
UseMutation(name, mutationFn, filters) ==
  /\ mutationFn
  /\ LET invalidated == IF ret'.result # "rejected" THEN filters ELSE {}
     IN /\ cache' = Invalidate(invalidated)
        /\ hook' = Hook(name, <<>>, Undef, TRUE, Undef, invalidated,
                        {k \in DOMAIN cache : \E f \in invalidated : Matches(f, k)})

useCreatePost(userId, tags, oUp, oPrev, oDoc, oDel) ==
  UseMutation("useCreatePost", CreatePost(userId, tags, oUp, oPrev, oDoc, oDel),
              {<<"GET_HOME_FEED_POSTS">>})

\* queryKey: [QUERY_KEYS.GET_POST_BY_ID, data?.$id]
useLikePost(postId, likesArray, oDoc) ==
  UseMutation("useLikePost", LikePost(postId, likesArray, oDoc),
              {<<"GET_POST_BY_ID", ret'.id>>, <<"GET_HOME_FEED_POSTS">>, <<"GET_CURRENT_USER">>})

useSavePost(postId, userId, oDoc) ==
  UseMutation("useSavePost", SavePost(postId, userId, oDoc),
              {<<"GET_HOME_FEED_POSTS">>, <<"GET_CURRENT_USER">>})

useDeleteSavedPost(savedRecordId, oDoc) ==
  UseMutation("useDeleteSavedPost", DeleteSavedPost(savedRecordId, oDoc),
              {<<"GET_HOME_FEED_POSTS">>, <<"GET_CURRENT_USER">>})

useUpdatePost(postId, hasFileToUpdate, tags, oUp, oPrev, oDoc, oDel) ==
  UseMutation("useUpdatePost", UpdatePost(postId, hasFileToUpdate, tags, oUp, oPrev, oDoc, oDel),
              {<<"GET_POST_BY_ID", ret'.id>>})

useDeletePost(postId, imageId, oDoc) ==
  UseMutation("useDeletePost", DeletePost(postId, imageId, oDoc), {<<"GET_HOME_FEED_POSTS">>})

\* queryKey: [QUERY_KEYS.GET_USER_BY_ID, data?.$id], data being what
\* updateUser resolved to
useUpdateUser(userId, hasFileToUpdate, oUp, oPrev, oDoc, oAcct, oDel) ==
  UseMutation("useUpdateUser", UpdateUser(userId, hasFileToUpdate, oUp, oPrev, oDoc, oAcct, oDel),
              {<<"GET_CURRENT_USER">>, <<"GET_USER_BY_ID", ret'.id>>})

useFollowUser(userId, followedUserId, oDoc) ==
  UseMutation("useFollowUser", FollowUser(userId, followedUserId, oDoc), {<<"GET_USER_FOLLOWING">>})

useUnfollowUser(followedUserRecord, oDoc) ==
  UseMutation("useUnfollowUser", UnfollowUser(followedUserRecord, oDoc), {<<"GET_USER_FOLLOWING">>})

\* Tags input of the storage specification (SpecTags draws all of TagInputs)
SomeTags == {Str(<<"a", ",", "a">>)}

\* The outcome of a remote call that is never reached is immaterial: it is
\* fixed to "ok" so that each run of a handler is enumerated once.
OnlyIf(reached, o) == reached \/ o = "ok"

ApiCreatePost ==
  \E u \in DOMAIN users, t \in SomeTags, oUp \in Outcomes, oPrev \in SyncOutcomes,
     oDoc \in Outcomes, oDel \in SyncOutcomes :
    /\ OnlyIf(oUp = "ok", oPrev)
    /\ OnlyIf(oUp = "ok" /\ oPrev = "ok", oDoc)
    /\ OnlyIf(oUp = "ok" /\ oPrev = "ok" /\ oDoc = "null", oDel)
    /\ CreatePost(u, t, oUp, oPrev, oDoc, oDel)
    /\ UNCHANGED cacheVars

ApiUpdatePost ==
  \E p \in DOMAIN posts, h \in BOOLEAN, t \in SomeTags, oUp \in Outcomes,
     oPrev \in SyncOutcomes, oDoc \in Outcomes, oDel \in SyncOutcomes :
    /\ OnlyIf(h, oUp)
    /\ OnlyIf(h /\ oUp = "ok", oPrev)
    /\ OnlyIf(oUp = "ok" /\ oPrev = "ok", oDoc)
    /\ OnlyIf(oUp = "ok" /\ oPrev = "ok" /\ oDoc = "null", oDel)
    /\ UpdatePost(p, h, t, oUp, oPrev, oDoc, oDel)
    /\ UNCHANGED cacheVars

ApiDeletePost ==
  \E p \in DOMAIN posts \cup {NoId}, withImage \in BOOLEAN, oDoc \in Outcomes :
    /\ OnlyIf(withImage /\ p # NoId, oDoc)
    /\ DeletePost(p, IF withImage /\ p # NoId THEN posts[p].imageId ELSE NoId, oDoc)
    /\ UNCHANGED cacheVars

ApiUpdateUser ==
  \E u \in DOMAIN users, h \in BOOLEAN, oUp \in Outcomes, oPrev \in SyncOutcomes,
     oDoc \in Outcomes, oAcct \in Outcomes, oDel \in SyncOutcomes :
    /\ OnlyIf(h, oUp)
    /\ OnlyIf(h /\ oUp = "ok", oPrev)
    /\ OnlyIf(oUp = "ok" /\ oPrev = "ok", oDoc)
    /\ OnlyIf(oUp = "ok" /\ oPrev = "ok" /\ oDoc # "throw", oAcct)
    /\ OnlyIf(h /\ oUp = "ok" /\ (oPrev # "ok" \/ (oDoc # "throw" /\ oAcct # "throw")), oDel)
    /\ UpdateUser(u, h, oUp, oPrev, oDoc, oAcct, oDel)
    /\ UNCHANGED cacheVars

ApiCreateUserAccount ==
  \E oAcct \in Outcomes, oDoc \in Outcomes :
    /\ OnlyIf(oAcct = "ok", oDoc)
    /\ CreateUserAccount(oAcct, oDoc)
    /\ UNCHANGED cacheVars

ApiSignInAccount ==
  \E u \in DOMAIN users, oAcct \in Outcomes :
    /\ SignInAccount(u, oAcct)
    /\ UNCHANGED cacheVars

ApiGetPostById ==
  \E p \in PostIds \cup {NoId, Undef}, oDoc \in Outcomes :
    /\ OnlyIf(Truthy(p), oDoc)
    /\ GetPostById(p, oDoc)
    /\ UNCHANGED cacheVars

ApiCompleteDelete ==
  \E f \in pending, oDel \in SyncOutcomes :
    /\ CompleteDelete(f, oDel)
    /\ UNCHANGED cacheVars

Next ==
  \/ ApiCreatePost
  \/ ApiUpdatePost
  \/ ApiDeletePost
  \/ ApiUpdateUser
  \/ ApiCreateUserAccount
  \/ ApiSignInAccount
  \/ ApiGetPostById
  \/ ApiCompleteDelete

Spec == Init /\ [][Next]_vars

\* ------------------------------------------------- specification: tags
\* The tags conversion applied by createPost and updatePost to every tags
\* input of bounded length; all remote calls succeed.
InitTags ==
  /\ files = {}
  /\ nextFile = 1
  /\ pending = {}
  /\ posts = <<>>
  /\ nextPost = 1
  /\ users = [u \in {1} |-> [imageId |-> NoId]]
  /\ accounts = {1}
  /\ follows = <<>>
  /\ nextFollow = 1
  /\ saves = <<>>
  /\ nextSave = 1
  /\ cache = <<>>
  /\ hook = NoHook
  /\ ret = NoRet

TagsCreatePost ==
  \E t \in TagInputs :
    /\ CreatePost(1, t, "ok", "ok", "ok", "ok")
    /\ UNCHANGED cacheVars

TagsUpdatePost ==
  \E p \in DOMAIN posts, t \in TagInputs :
    /\ UpdatePost(p, FALSE, t, "ok", "ok", "ok", "ok")
    /\ UNCHANGED cacheVars

NextTags == TagsCreatePost \/ TagsUpdatePost

SpecTags == InitTags /\ [][NextTags]_vars

\* ------------------------------------------------- specification: feed
\* Users and their posts exist (post p was created p-th); users follow and
\* unfollow, and the signed-in user reads pages of the home feed.
FeedUsers == 1..MaxFeedUsers

InitFeed ==
  /\ \E n \in 0..MaxFeedPosts : \E creator \in [1..n -> FeedUsers] :
       /\ posts = [p \in 1..n |-> [creator |-> creator[p], imageId |-> p, tags |-> <<>>,
                                   createdAt |-> p, likes |-> <<>>]]
       /\ files = 1..n
       /\ nextFile = n + 1
       /\ nextPost = n + 1
  /\ pending = {}
  /\ users = [u \in FeedUsers |-> [imageId |-> NoId]]
  /\ accounts = FeedUsers
  /\ follows = <<>>
  /\ nextFollow = 1
  /\ saves = <<>>
  /\ nextSave = 1
  /\ cache = <<>>
  /\ hook = NoHook
  /\ ret = NoRet

FeedFollowUser ==
  \E u \in FeedUsers, v \in FeedUsers, oDoc \in Outcomes :
    /\ FollowUser(u, v, oDoc)
    /\ UNCHANGED cacheVars

FeedUnfollowUser ==
  \E r \in DOMAIN follows, oDoc \in Outcomes :
    /\ UnfollowUser(r, oDoc)
    /\ UNCHANGED cacheVars

\* the runs of getHomeFeedPosts with n post queries: every remote call
\* succeeds, or exactly one call fails and the calls after it are not reached
FeedRuns(n) ==
  {[acct |-> "ok", user |-> "ok", posts |-> [k \in 1..n |-> "ok"]]}
  \cup {[acct |-> o, user |-> "ok", posts |-> [k \in 1..n |-> "ok"]] : o \in {"throw", "null"}}
  \cup {[acct |-> "ok", user |-> o, posts |-> [k \in 1..n |-> "ok"]] : o \in {"throw", "null"}}
  \cup {[acct |-> "ok", user |-> "ok", posts |-> [k \in 1..n |-> IF k = bad THEN o ELSE "ok"]] :
          bad \in 1..n, o \in {"throw", "null"}}

FeedGetHomeFeedPosts ==
  \E u \in FeedUsers, page \in 1..MaxPage, pageSize \in {1, HomePageSize} :
    \E run \in FeedRuns(Len(FeedUserIds(u))) :
      /\ GetHomeFeedPosts(u, page, pageSize, run.acct, run.user, run.posts)
      /\ UNCHANGED cacheVars

NextFeed == FeedFollowUser \/ FeedUnfollowUser \/ FeedGetHomeFeedPosts

SpecFeed == InitFeed /\ [][NextFeed]_vars

\* ------------------------------------------------ specification: reads
\* Components mount the parameterised read hooks with every identifier,
\* the empty and the undefined one included, over a fixed backend.
ReadIds == {Undef, NoId} \cup 1..MaxReadId

InitReads ==
  /\ posts = [p \in 1..MaxReadId |-> [creator |-> p, imageId |-> p, tags |-> <<>>,
                                      createdAt |-> p, likes |-> <<>>]]
  /\ files = 1..MaxReadId
  /\ nextFile = MaxReadId + 1
  /\ nextPost = MaxReadId + 1
  /\ pending = {}
  /\ users = [u \in 1..MaxReadId |-> [imageId |-> NoId]]
  /\ accounts = 1..MaxReadId
  /\ follows = [i \in {1} |-> [follower |-> 1, followedUser |-> MaxReadId]]
  /\ nextFollow = 2
  /\ saves = <<>>
  /\ nextSave = 1
  /\ cache = <<>>
  /\ hook = NoHook
  /\ ret = NoRet

\* a string parameter is never undefined
ReadsSearchPosts == \E t \in ReadIds \ {Undef}, o \in Outcomes : useSearchPosts(t, o)

ReadsGetPostById == \E p \in ReadIds, o \in Outcomes : useGetPostById(p, o)

ReadsGetUserPosts == \E u \in ReadIds, o \in Outcomes : useGetUserPosts(u, o)

ReadsGetUserProfilePosts == \E u \in ReadIds \ {Undef}, o \in Outcomes : useGetUserProfilePosts(u, o)

ReadsGetUserById == \E u \in ReadIds \ {Undef}, o \in Outcomes : useGetUserById(u, o)

ReadsGetUsers == \E l \in ReadIds \ {NoId}, o \in Outcomes : useGetUsers(l, o)

ReadsEvict == \E k \in DOMAIN cache : Evict(k)

NextReads ==
  \/ ReadsSearchPosts
  \/ ReadsGetPostById
  \/ ReadsGetUserPosts
  \/ ReadsGetUserProfilePosts
  \/ ReadsGetUserById
  \/ ReadsGetUsers
  \/ ReadsEvict

SpecReads == InitReads /\ [][NextReads]_vars

\* -------------------------------------------- specification: mutations
\* The signed-in user mutates through the hooks while the cache holds the
\* queries the application reads. A session works on one kind of document
\* (posts, saved posts or follows); of the other kinds no further document
\* is created, and one post exists unless the session is about posts.
MutationKeys ==
  {<<"GET_HOME_FEED_POSTS">>, <<"GET_CURRENT_USER">>, <<"GET_USER_FOLLOWING">>}
  \cup {<<"GET_POST_BY_ID", p>> : p \in PostIds}
  \cup {<<"GET_USER_BY_ID", u>> : u \in UserIds}

InitMutations ==
  \E kind \in {"posts", "saves", "follows"} :
    /\ files = IF kind = "posts" THEN {} ELSE {1}
    /\ nextFile = IF kind = "posts" THEN 1 ELSE MaxFiles + 1
    /\ pending = {}
    /\ posts = IF kind = "posts" THEN <<>>
               ELSE [p \in {1} |-> [creator |-> 1, imageId |-> 1, tags |-> <<>>,
                                    createdAt |-> 1, likes |-> <<>>]]
    /\ nextPost = IF kind = "posts" THEN 1 ELSE MaxPosts + 1
    /\ users = [u \in UserIds |-> [imageId |-> NoId]]
    /\ accounts = UserIds
    /\ follows = <<>>
    /\ nextFollow = IF kind = "follows" THEN 1 ELSE MaxFollows + 1
    /\ saves = <<>>
    /\ nextSave = IF kind = "saves" THEN 1 ELSE MaxSaves + 1
    /\ cache = [k \in MutationKeys |-> [fetchedFor |-> k[Len(k)], stale |-> FALSE]]
    /\ hook = NoHook
    /\ ret = NoRet

MutCreatePost ==
  \E u \in UserIds, oUp \in Outcomes, oDoc \in Outcomes :
    /\ OnlyIf(oUp = "ok", oDoc)
    /\ useCreatePost(u, NoTags, oUp, "ok", oDoc, "ok")

MutLikePost ==
  \E p \in DOMAIN posts, u \in UserIds, oDoc \in Outcomes : useLikePost(p, <<u>>, oDoc)

MutSavePost ==
  \E p \in DOMAIN posts, u \in UserIds, oDoc \in Outcomes : useSavePost(p, u, oDoc)

MutDeleteSavedPost ==
  \E r \in DOMAIN saves, oDoc \in Outcomes : useDeleteSavedPost(r, oDoc)

MutUpdatePost ==
  \E p \in DOMAIN posts, oDoc \in Outcomes : useUpdatePost(p, FALSE, NoTags, "ok", "ok", oDoc, "ok")

MutDeletePost ==
  \E p \in DOMAIN posts, oDoc \in Outcomes : useDeletePost(p, posts[p].imageId, oDoc)

MutUpdateUser ==
  \E u \in UserIds, oDoc \in Outcomes, oAcct \in Outcomes :
    /\ OnlyIf(oDoc # "throw", oAcct)
    /\ useUpdateUser(u, FALSE, "ok", "ok", oDoc, oAcct, "ok")

MutFollowUser ==
  \E u \in UserIds, v \in UserIds, oDoc \in Outcomes : useFollowUser(u, v, oDoc)

MutUnfollowUser ==
  \E r \in DOMAIN follows, oDoc \in Outcomes : useUnfollowUser(r, oDoc)

NextMutations ==
  \/ MutCreatePost
  \/ MutLikePost
  \/ MutSavePost
  \/ MutDeleteSavedPost
  \/ MutUpdatePost
  \/ MutDeletePost
  \/ MutUpdateUser
  \/ MutFollowUser
  \/ MutUnfollowUser

SpecMutations == InitMutations /\ [][NextMutations]_vars

\* ------------------------------------------------------ API: paged lists
\* getExplorePosts(page, pageSize = 9)
ExplorePageSize == 9

\* getAllPosts(): Query.orderDesc("$updatedAt"); no post is updated here,
\* so $updatedAt is $createdAt
GetExplorePosts(page, pageSize, oDoc) ==
  LET allPosts == SortDesc(Ascending(DOMAIN posts))
      startIndex == (page - 1) * pageSize
      endIndex == startIndex + pageSize
  IN /\ UNCHANGED backend
     /\ ret' = RetD(<<page, pageSize>>,
                    IF oDoc = "ok" THEN Slice(allPosts, startIndex, endIndex) ELSE <<>>,
                    Ret("getExplorePosts", IF oDoc = "ok" THEN "doc" ELSE "undefined", Undef,
                        FALSE, "none", "none", NoId, NoId, NoId,
                        <<Call("databases.listDocuments.posts", NoId)>>))

\* getAllUsers(page, pageSize = 9)
UsersPageSize == 9

\* getUsers() without a limit, then the slice
GetAllUsers(page, pageSize, oDoc) ==
  LET allUsers == SortByFollowers(Ascending(DOMAIN users))
      startIndex == (page - 1) * pageSize
      endIndex == startIndex + pageSize
  IN /\ UNCHANGED backend
     /\ ret' = RetD(<<page, pageSize>>,
                    IF oDoc = "ok" THEN Slice(allUsers, startIndex, endIndex) ELSE <<>>,
                    Ret("getAllUsers", IF oDoc = "ok" THEN "doc" ELSE "undefined", Undef,
                        FALSE, "none", "none", NoId, NoId, NoId,
                        <<Call("databases.listDocuments.users", NoId)>>))

\* ------------------------------------------------- hooks: paginated reads
\* initialPageParam: 1
InitialPageParam == 1

\* a next-page rule that leaves a page out
NextPageParamSkipping(pages) == Len(pages) + 2

\* getNextPageParam: (_, pages) => pages.length + 1
NextPageParam(pages) == Len(pages) + 1

\* the pageParam of the next fetch of an infinite query
PageParam(key) ==
  IF cache[key].pages = <<>> THEN InitialPageParam ELSE NextPageParam(cache[key].pages)

\* useInfiniteQuery: the first fetch, or fetchNextPage(). The page the
\* queryFn resolves to is appended to pages as it is, a page that is
\* undefined (the read failed) included, and its pageParam to pageParams.
FetchNextPage(name, key, queryFn) ==
  /\ key \in DOMAIN cache
  /\ Len(cache[key].pages) <= MaxPage
  /\ queryFn
  /\ cache' = [cache EXCEPT
                 ![key].pages = Append(@, [defined |-> ret'.result = "doc", items |-> ret'.data]),
                 ![key].pageParams = Append(@, PageParam(key))]
  /\ hook' = Hook(name, key, cache[key].fetchedFor, TRUE, cache[key].fetchedFor, {}, {})

useGetHomeFeedPosts(oAcct, oUser, oPosts) ==
  FetchNextPage("useGetHomeFeedPosts", <<"GET_HOME_FEED_POSTS">>,
                GetHomeFeedPosts(1, PageParam(<<"GET_HOME_FEED_POSTS">>), HomePageSize,
                                 oAcct, oUser, oPosts))

useGetExplorePosts(oDoc) ==
  FetchNextPage("useGetExplorePosts", <<"GET_EXPLORE_POSTS">>,
                GetExplorePosts(PageParam(<<"GET_EXPLORE_POSTS">>), ExplorePageSize, oDoc))

\* fetchNextPage() of useGetUserProfilePosts(userId)
useGetUserProfilePostsNext(userId, oDoc) ==
  FetchNextPage("useGetUserProfilePosts", <<"GET_USER_PROFILE_POSTS">>,
                GetUserProfilePosts(userId, PageParam(<<"GET_USER_PROFILE_POSTS">>),
                                    ProfilePageSize, oDoc))

useGetAllUsers(oDoc) ==
  FetchNextPage("useGetAllUsers", <<"GET_ALL_USERS">>,
                GetAllUsers(PageParam(<<"GET_ALL_USERS">>), UsersPageSize, oDoc))

\* ------------------------------------------------ specification: pages
\* One of the four infinite queries is mounted over a backend that is not
\* written to, and the component asks for page after page. The users post
\* in turn, two posts to a millisecond; the signed-in user is user 1.
PagedKeys ==
  {<<"GET_HOME_FEED_POSTS">>, <<"GET_EXPLORE_POSTS">>, <<"GET_USER_PROFILE_POSTS">>,
   <<"GET_ALL_USERS">>}

InitPages ==
  \E key \in PagedKeys :
    /\ \E n \in 0..MaxListed :
         /\ n > 0 => key # <<"GET_ALL_USERS">>
         /\ posts = [p \in 1..n |-> [creator |-> 1 + (p % MaxFeedUsers), imageId |-> p,
                                     tags |-> <<>>, createdAt |-> 1 + (p \div 2),
                                     likes |-> <<>>]]
         /\ files = 1..n
         /\ nextFile = n + 1
         /\ nextPost = n + 1
    /\ \E m \in {MaxFeedUsers, MaxListed} :
         /\ m # MaxFeedUsers => key = <<"GET_ALL_USERS">>
         /\ users = [u \in 1..m |-> [imageId |-> NoId]]
         /\ accounts = 1..m
    /\ \E n \in 0..MaxFollows : \E followed \in [1..n -> FeedUsers] :
         /\ n > 0 => key \in {<<"GET_HOME_FEED_POSTS">>, <<"GET_ALL_USERS">>}
         /\ follows = [i \in 1..n |-> [follower |-> 1, followedUser |-> followed[i]]]
         /\ nextFollow = n + 1
    /\ \E userId \in FeedUsers \cup {NoId} :
         /\ userId # 1 => key = <<"GET_USER_PROFILE_POSTS">>
         /\ cache = [k \in {key} |->
                       [fetchedFor |-> userId, stale |-> FALSE, pages |-> <<>>,
                        pageParams |-> <<>>]]
    /\ pending = {}
    /\ saves = <<>>
    /\ nextSave = 1
    /\ hook = NoHook
    /\ ret = NoRet

PagesGetHomeFeedPosts ==
  \E run \in FeedRuns(Len(FeedUserIds(1))) :
    /\ <<"GET_HOME_FEED_POSTS">> \in DOMAIN cache
    /\ useGetHomeFeedPosts(run.acct, run.user, run.posts)

PagesGetExplorePosts ==
  \E oDoc \in Outcomes :
    /\ <<"GET_EXPLORE_POSTS">> \in DOMAIN cache
    /\ useGetExplorePosts(oDoc)

PagesGetUserProfilePosts ==
  \E oDoc \in Outcomes :
    /\ <<"GET_USER_PROFILE_POSTS">> \in DOMAIN cache
    /\ OnlyIf(Truthy(cache[<<"GET_USER_PROFILE_POSTS">>].fetchedFor), oDoc)
    /\ useGetUserProfilePostsNext(cache[<<"GET_USER_PROFILE_POSTS">>].fetchedFor, oDoc)

PagesGetAllUsers ==
  \E oDoc \in Outcomes :
    /\ <<"GET_ALL_USERS">> \in DOMAIN cache
    /\ useGetAllUsers(oDoc)

NextPages ==
  \/ PagesGetHomeFeedPosts
  \/ PagesGetExplorePosts
  \/ PagesGetUserProfilePosts
  \/ PagesGetAllUsers

SpecPages == InitPages /\ [][NextPages]_vars

\* ------------------------------------- specification: feed composition
\* getFollowingPosts() step by step: each await is a step of its own, and
\* the post queries handed to Promise.all complete in any order. Posts
\* created in the same millisecond share $createdAt: the users post in turn,
\* two posts to a millisecond.
\*   pc       : "account" | "user" | "posts" (awaiting that call), "done"
\*   result   : "pending" until the function returns
\*   userIds  : the ids the post queries are issued for, in order
\*   inflight : indices of the post queries not yet completed
\*   arrived  : indices of the completed post queries, in completion order
\*   lists    : the responses, by index; <<Undef>> for one that is nothing
Fetch(pc, result, doc, userIds, calls, inflight, arrived, lists, data) ==
  [op |-> "getFollowingPosts", pc |-> pc, result |-> result, doc |-> doc,
   userIds |-> userIds, calls |-> calls, inflight |-> inflight, arrived |-> arrived,
   lists |-> lists, data |-> data]

InFlight == ret.op = "getFollowingPosts" /\ ret.result = "pending"

\* getFollowingPosts() is called: getCurrentUser() issues account.get()
FollowingPostsCall(userId) ==
  /\ ~InFlight
  /\ ret' = Fetch("account", "pending", userId, <<>>, <<Call("account.get", userId)>>,
                  {}, <<>>, <<>>, <<>>)
  /\ UNCHANGED backend

\* account.get() completes: the user document is queried, or getCurrentUser
\* yields nothing and getFollowingPosts throws and returns undefined
FollowingPostsAccount(oAcct) ==
  /\ InFlight /\ ret.pc = "account"
  /\ ret' = IF oAcct = "ok"
            THEN [ret EXCEPT !.pc = "user",
                             !.calls = @ \o <<Call("databases.listDocuments.users", ret.doc)>>]
            ELSE [ret EXCEPT !.pc = "done", !.result = "undefined"]
  /\ UNCHANGED backend

\* the user document arrives: userIds is built and every post query is
\* issued at once, userIds.map(userId => databases.listDocuments(...))
FollowingPostsUser(oUser) ==
  /\ InFlight /\ ret.pc = "user"
  /\ LET userIds == FeedUserIds(ret.doc)
     IN ret' = IF oUser = "ok" /\ ret.doc \in DOMAIN users
               THEN [ret EXCEPT !.pc = "posts", !.userIds = userIds,
                                !.calls = @ \o [k \in 1..Len(userIds) |->
                                                  Call("databases.listDocuments.posts", userIds[k])],
                                !.inflight = 1..Len(userIds),
                                !.lists = [k \in 1..Len(userIds) |-> <<>>]]
               ELSE [ret EXCEPT !.pc = "done", !.result = "undefined"]
  /\ UNCHANGED backend

\* the responses flattened in the order they arrived in
JoinedAsArrived(lists, arrived) == FlatMap([k \in 1..Len(arrived) |-> lists[arrived[k]]])

\* fetchPosts.flatMap(creator => creator.documents): Promise.all keeps the
\* order of its input, whatever order the responses arrive in
Joined(lists, arrived) == FlatMap([k \in 1..Len(lists) |-> lists[k]])

\* the k-th post query completes. Promise.all rejects with the first
\* rejection and resolves when the last query has resolved; a response that
\* is nothing makes creator.documents raise after the join. A response
\* arriving after the function returned is dropped.
FollowingPostsResponse(k, oPosts) ==
  /\ ret.op = "getFollowingPosts" /\ ret.pc \in {"posts", "done"}
  /\ k \in ret.inflight
  /\ UNCHANGED backend
  /\ LET inflight == ret.inflight \ {k}
         arrived == Append(ret.arrived, k)
         lists == [ret.lists EXCEPT ![k] = IF oPosts = "ok" THEN PostsBy(ret.userIds[k])
                                           ELSE <<Undef>>]
         r == [ret EXCEPT !.inflight = inflight, !.arrived = arrived, !.lists = lists]
     IN IF ret.pc = "done" THEN
          ret' = [ret EXCEPT !.inflight = inflight]
        ELSE IF oPosts = "throw" THEN
          ret' = [r EXCEPT !.pc = "done", !.result = "undefined"]
        ELSE IF inflight # {} THEN
          ret' = r
        ELSE IF \E i \in 1..Len(lists) : lists[i] = <<Undef>> THEN
          ret' = [r EXCEPT !.pc = "done", !.result = "undefined"]
        ELSE
          ret' = [r EXCEPT !.pc = "done", !.result = "doc",
                           !.data = SortDesc(Joined(lists, arrived))]

InitJoin ==
  /\ \E n \in 0..MaxFeedPosts :
       /\ posts = [p \in 1..n |-> [creator |-> 1 + (p % MaxFeedUsers), imageId |-> p,
                                   tags |-> <<>>, createdAt |-> 1 + ((p \div 2) % 2),
                                   likes |-> <<>>]]
       /\ files = 1..n
       /\ nextFile = n + 1
       /\ nextPost = n + 1
  /\ \E n \in 0..MaxFollows : \E followed \in [1..n -> FeedUsers] :
       /\ follows = [i \in 1..n |-> [follower |-> 1, followedUser |-> followed[i]]]
       /\ nextFollow = n + 1
  /\ pending = {}
  /\ users = [u \in FeedUsers |-> [imageId |-> NoId]]
  /\ accounts = FeedUsers
  /\ saves = <<>>
  /\ nextSave = 1
  /\ cache = <<>>
  /\ hook = NoHook
  /\ ret = NoRet

JoinCall == FollowingPostsCall(1) /\ UNCHANGED cacheVars

JoinAccount == \E oAcct \in Outcomes : FollowingPostsAccount(oAcct) /\ UNCHANGED cacheVars

JoinUser == \E oUser \in Outcomes : FollowingPostsUser(oUser) /\ UNCHANGED cacheVars

JoinResponse ==
  \E k \in 1..(MaxFollows + 1), oPosts \in Outcomes :
    /\ FollowingPostsResponse(k, oPosts)
    /\ OnlyIf(ret.pc = "posts", oPosts)
    /\ UNCHANGED cacheVars

NextJoin == JoinCall \/ JoinAccount \/ JoinUser \/ JoinResponse

SpecJoin == InitJoin /\ [][NextJoin]_vars

\* ================================================================ claims
IsDelete(c, fileId) == c.api = "storage.deleteFile" /\ c.arg = fileId

Deletes(calls, fileId) == Cardinality({i \in 1..Len(calls) : IsDelete(calls[i], fileId)})

IsUpdate == ret.op \in {"updatePost", "updateUser"}

\* the document the last update wrote to
UpdatedRecord == IF ret.op = "updatePost" THEN posts[ret.doc] ELSE users[ret.doc]

\* the record update failed: the write raised or yielded nothing, or (for
\* updateUser) account.updateName did
UpdateFailed ==
  \/ ret.write \in {"throw", "null"}
  \/ ret.op = "updateUser" /\ ret.acct \in {"throw", "null"}

UpdateSucceeded ==
  /\ ret.write = "ok"
  /\ ret.op = "updateUser" => ret.acct = "ok"

\* C1: when createPost uploaded the file and the post-record write then
\* failed (it raised, or yielded no record), the uploaded file is not in
\* storage when createPost returns and deleteFile was issued for it exactly
\* once.
C1_CreatePostCompensates ==
  (ret.op = "createPost" /\ ret.upload /\ ret.write \in {"throw", "null"})
    => (ret.newId \notin files /\ Deletes(ret.calls, ret.newId) = 1)

\* C2: when updatePost / updateUser is called with a new file and an
\* existing image id and the update succeeds, then on return the old file is
\* gone, the new file exists and the stored record's imageId is the new id.
C2_ReplaceOnSuccess ==
  (IsUpdate /\ ret.upload /\ Truthy(ret.oldId) /\ UpdateSucceeded)
    => /\ ret.oldId \notin files
       /\ ret.newId \in files
       /\ UpdatedRecord.imageId = ret.newId

\* C3: when updatePost / updateUser uploaded a new file and the record
\* update then failed, on return the old file is still in storage and the
\* newly uploaded file has been deleted.
C3_KeepOldOnFailure ==
  (IsUpdate /\ ret.upload /\ UpdateFailed)
    => /\ Truthy(ret.oldId) => ret.oldId \in files
       /\ ret.newId \notin files

\* C4: updatePost / updateUser issue a delete of the record's previous image
\* only after the record write of that update succeeded, and so no stored
\* post or user record ever references an image file that has been deleted.
C4_DeleteOldAfterWrite ==
  /\ (IsUpdate /\ Truthy(ret.oldId) /\ Deletes(ret.calls, ret.oldId) > 0)
       => /\ UpdateSucceeded
          /\ \E i, j \in 1..Len(ret.calls) :
               /\ i < j
               /\ ret.calls[i].api = "databases.updateDocument"
               /\ IsDelete(ret.calls[j], ret.oldId)
  /\ \A p \in DOMAIN posts : posts[p].imageId \in files
  /\ \A u \in DOMAIN users : Truthy(users[u].imageId) => users[u].imageId \in files

\* C5: every API function completes without raising to its caller and never
\* returns an error object: its result is a value or undefined.
C5_NoErrorEscapes ==
  ret.result \notin {"rejected", "error"}

\* the list the claim describes: nothing when no tags are supplied,
\* otherwise the comma-separated segments, each without its spaces
NoTagsSupplied(t) == ~t.present \/ t.chars = <<>>

ExpectedTags(t) ==
  IF NoTagsSupplied(t) THEN <<>>
  ELSE [i \in 1..Len(Split(t.chars)) |-> SelectSeq(Split(t.chars)[i], LAMBDA c : c # " ")]

\* C9: the tag list createPost / updatePost write to the post record is the
\* sequence of comma-separated segments of the tags input with whitespace
\* stripped, and the empty list when no tags are supplied.
C9_TagsStored ==
  (ret.op \in {"createPost", "updatePost"} /\ ret.write = "ok")
    => posts[ret.doc].tags = ExpectedTags(ret.tags)

\* the users U follows, and the posts of U and of them
Followed(u) == {follows[i].followedUser : i \in {j \in DOMAIN follows : follows[j].follower = u}}

Candidates(u) == {p \in DOMAIN posts : posts[p].creator \in Followed(u) \cup {u}}

\* a set of posts as a list, newest first, each post once
RECURSIVE NewestFirst(_)
NewestFirst(S) ==
  IF S = {} THEN <<>>
  ELSE LET m == CHOOSE x \in S : \A y \in S : posts[x].createdAt >= posts[y].createdAt
       IN <<m>> \o NewestFirst(S \ {m})

\* positions (page-1)*pageSize .. (page-1)*pageSize+pageSize-1 of a list
Window(list, page, pageSize) ==
  [i \in 1..Min(pageSize, Max(0, Len(list) - (page - 1) * pageSize)) |->
     list[(page - 1) * pageSize + i]]

\* C6: for a user U with a non-empty follow list, getHomeFeedPosts returns
\* exactly the requested page window of the newest-first merge of U's own
\* posts and the posts of every user U follows, each post appearing once.
C6_HomeFeedIsMergedWindow ==
  (ret.op = "getHomeFeedPosts" /\ ret.result = "doc" /\ Followed(ret.doc) # {})
    => ret.data = Window(NewestFirst(Candidates(ret.doc)), ret.args[1], ret.args[2])

\* the reads bound to a required identifier
BoundReads ==
  {"useSearchPosts", "useGetPostById", "useGetUserPosts", "useGetUserProfilePosts",
   "useGetUserById"}

\* C8: a read bound to a required identifier issues no remote call while the
\* identifier is empty or undefined, and raises no error either.
C8_NoCallOnEmptyId ==
  (hook.name \in BoundReads /\ ~Truthy(hook.param))
    => (ret.calls = <<>> /\ ret.result # "rejected")

\* C8 witness: useGetUserProfilePosts was mounted with the empty user id and
\* its queryFn ran (the hook has no enabled option).
C8_Witness ==
  /\ hook.name = "useGetUserProfilePosts"
  /\ hook.param = NoId
  /\ hook.ran
  /\ ret.op = "getUserProfilePosts"

\* C10: a parameterised read is never answered with data fetched for
\* another parameter (its cache key holds the parameter).
C10_KeyHoldsParameter ==
  (hook.name \in BoundReads \cup {"useGetUsers"} /\ hook.servedFor # Undef)
    => hook.servedFor = hook.param

\* the invalidation table: the cache keys a mutation on document doc makes
\* stale
InvalidationTable(name, doc) ==
  CASE name = "useCreatePost" -> {<<"GET_HOME_FEED_POSTS">>}
    [] name = "useLikePost" ->
         {<<"GET_POST_BY_ID", doc>>, <<"GET_HOME_FEED_POSTS">>, <<"GET_CURRENT_USER">>}
    [] name \in {"useSavePost", "useDeleteSavedPost"} ->
         {<<"GET_HOME_FEED_POSTS">>, <<"GET_CURRENT_USER">>}
    [] name = "useUpdatePost" -> {<<"GET_POST_BY_ID", doc>>}
    [] name = "useDeletePost" -> {<<"GET_HOME_FEED_POSTS">>}
    [] name = "useUpdateUser" -> {<<"GET_CURRENT_USER">>, <<"GET_USER_BY_ID", doc>>}
    [] name \in {"useFollowUser", "useUnfollowUser"} -> {<<"GET_USER_FOLLOWING">>}
    [] OTHER -> {}

MutationHooks ==
  {"useCreatePost", "useLikePost", "useSavePost", "useDeleteSavedPost", "useUpdatePost",
   "useDeletePost", "useUpdateUser", "useFollowUser", "useUnfollowUser"}

\* the remote work of the last mutation succeeded
MutationSucceeded ==
  /\ ret.write = "ok"
  /\ ret.op = "updateUser" => ret.acct = "ok"

\* the post a successful like or update was applied to, the user updated
MutatedDoc == IF ret.op \in {"likePost", "updatePost", "updateUser"} THEN ret.doc ELSE NoId

\* C7: after a mutation succeeds, exactly the cached keys of the
\* invalidation table are marked stale, and no others.
C7_InvalidationTable ==
  (hook.name \in MutationHooks /\ MutationSucceeded)
    => hook.marked = DOMAIN cache \cap InvalidationTable(hook.name, MutatedDoc)

\* the remote work of the last mutation failed: a remote call of it raised
\* or yielded nothing
MutationFailed ==
  \/ ret.write \in {"throw", "null"}
  \/ ret.op = "createPost" /\ ~ret.upload
  \/ ret.op = "updateUser" /\ ret.acct \in {"throw", "null"}

\* C12: when the remote call under a mutation hook fails, that mutation
\* marks no cache key stale.
C12_StaleOnlyOnSuccess ==
  (hook.name \in MutationHooks /\ MutationFailed) => hook.marked = {}

\* a step that is a deletePost with both arguments non-empty
DeletePostStep == ret'.op = "deletePost" /\ Truthy(ret'.doc) /\ Truthy(ret'.oldId)

\* C14: deletePost with a post id and an image id issues exactly one
\* remote call, the delete of the post document, and leaves blob storage
\* as it was, whether or not the document delete succeeded.
C14_DeletePostKeepsFile ==
  [][DeletePostStep =>
       /\ ret'.calls = <<Call("databases.deleteDocument", ret'.doc)>>
       /\ files' = files]_vars

\* deletePost has deleted a post whose image is still in storage
C14_Witness ==
  /\ ret.op = "deletePost" /\ ret.write = "ok"
  /\ ret.doc \notin DOMAIN posts
  /\ Truthy(ret.oldId) /\ ret.oldId \in files

\* the post queries getFollowingPosts has to issue for the signed-in user:
\* one per entry of the follow list, then one for the user
PostQueries(u) ==
  [k \in 1..Len(FeedUserIds(u)) |-> Call("databases.listDocuments.posts", FeedUserIds(u)[k])]

IsPostQuery(c) == c.api = "databases.listDocuments.posts"

CandidateList(key) ==
  CASE key = <<"GET_HOME_FEED_POSTS">> ->
         SortDesc(FlatMap([k \in 1..Len(FeedUserIds(1)) |-> PostsBy(FeedUserIds(1)[k])]))
    [] key = <<"GET_EXPLORE_POSTS">> -> SortDesc(Ascending(DOMAIN posts))
    [] key = <<"GET_USER_PROFILE_POSTS">> -> SortDesc(PostsBy(cache[key].fetchedFor))
    [] key = <<"GET_ALL_USERS">> -> SortByFollowers(Ascending(DOMAIN users))

PageSizeOf(key) ==
  CASE key = <<"GET_HOME_FEED_POSTS">> -> HomePageSize
    [] key = <<"GET_EXPLORE_POSTS">> -> ExplorePageSize
    [] key = <<"GET_USER_PROFILE_POSTS">> -> ProfilePageSize
    [] key = <<"GET_ALL_USERS">> -> UsersPageSize

\* every page of the query was returned by its read
PagesFetched(key) == \A i \in 1..Len(cache[key].pages) : cache[key].pages[i].defined

Concatenation(pages) == FlatMap([i \in 1..Len(pages) |-> pages[i].items])

====
